---- MODULE Spec2Model ----
(***************************************************************************)
(* Model of the gait-monitor firmware main.ino (src/unnamed/part_003):     *)
(* the cooperative loop, the step classifier, the position tracker, the    *)
(* inertial reader, the recorder and the display.                          *)
(*                                                                         *)
(* Number representation.                                                  *)
(*  - unsigned long / uint32_t (32 bits on the ESP32) is held as the       *)
(*    signed integer with the same 32-bit pattern (0 .. 2^31-1 as itself,  *)
(*    2^31 .. 2^32-1 as value - 2^32), because the model checker's         *)
(*    integers are 32 bits wide.  Add32 and Sub32 are + and - modulo 2^32  *)
(*    on that representation; GtU32 / GeU32 are the unsigned comparisons.  *)
(*  - angles are integers in microdegrees, distances in millimetres,       *)
(*    speeds in thousandths of km/h, inertial values in units of 1e-4.     *)
(*    Rounding of float / double arithmetic is not modelled.               *)
(***************************************************************************)
EXTENDS Integers, Sequences, FiniteSets, TLC

VARIABLES
    pc,                 \* "setup" before setup() ran, "loop" after it, "halted" in while(1)
    clock,              \* millis()
    lastGpsUpdate, lastSensorUpdate, lastPiezoUpdate, lastLogTime, lastDisplayUpdate,
    imuData, gpsData, stepData, headerWritten,
    gps,                \* the TinyGPSPlus object
    logFile,            \* the lines appended to /gait_data.csv since power-on
    frame,              \* the frame last presented on the display
    calls,              \* history: number of handler invocations since power-on
    pulses,             \* history: the samples above the detect threshold, per channel
    fixes,              \* history: the fixes handled by the last updateGPS call
    pass,               \* history: the last loop pass (its clock value, timers before, tasks run,
                        \* and the order they ran in)
    inputs              \* history: what setup() and the last call of each handler found

vars == <<pc, clock, lastGpsUpdate, lastSensorUpdate, lastPiezoUpdate, lastLogTime,
          lastDisplayUpdate, imuData, gpsData, stepData, headerWritten, gps, logFile,
          frame, calls, pulses, fixes, pass, inputs>>

\* ---------------------------------------------------------------- bounds
MaxStepCalls == 3       \* readPiezoSensors calls explored by SpecSteps
MaxGpsBytes == 2        \* bytes handed to gps.encode() since power-on, in SpecGPS
MaxImuCalls == 2        \* readAllIMUs calls explored by SpecIMU
MaxLogCalls == 5        \* logData calls explored by SpecLog
MaxDisplayCalls == 4    \* updateDisplay calls explored by SpecDisplay
MaxPasses == 5          \* passes of loop() explored by Spec

\* ---------------------------------------------------------------- 32-bit unsigned arithmetic
MaxInt32 == 2147483647
MinInt32 == -MaxInt32 - 1

\* (a + d) mod 2^32, for 0 <= d <= MaxInt32
Add32(a, d) ==
    IF a <= MaxInt32 - d THEN a + d
    ELSE (a - MaxInt32 - 1) + (d - MaxInt32 - 1)

\* (a - b) mod 2^32
Sub32(a, b) ==
    IF (a >= 0) = (b >= 0) THEN a - b
    ELSE IF a >= 0
         THEN IF a <= MaxInt32 + b THEN a - b
              ELSE (a - MaxInt32 - 1) + (-(b + MaxInt32) - 1)
         ELSE IF a >= MinInt32 + b THEN a - b
              ELSE (a + MaxInt32 + 1) + (MaxInt32 - b + 1)

\* unsigned x > k, x >= k, x < k, for 0 <= k <= MaxInt32
GtU32(x, k) == x < 0 \/ x > k
GeU32(x, k) == x < 0 \/ x >= k
LtU32(x, k) == x >= 0 /\ x < k

\* ---------------------------------------------------------------- constants of main.ino
DEBOUNCE_TIME == 200
GPS_UPDATE_INTERVAL == 1000
SENSOR_UPDATE_INTERVAL == 100
PIEZO_UPDATE_INTERVAL == 20
NUM_IMUS == 3

\* ---------------------------------------------------------------- step classifier
\* analogRead() results the model draws from: at and around each threshold
LeftValues == {600, 601, 700}
RightValues == {80, 81, 120}


\* LeftAccepted without the debounce test
LeftAcceptedNoDebounce(sd, currentMillis, leftValue) == leftValue > 600

\* LeftAccepted that takes a step only while none has been taken
LeftAcceptedFirstOnly(sd, currentMillis, leftValue) ==
    /\ leftValue > 600 /\ GtU32(Sub32(currentMillis, sd.lastLeftStep), DEBOUNCE_TIME)
    /\ sd.lastLeftStep = 0

\* one channel of readPiezoSensors: the left one
LeftAccepted(sd, currentMillis, leftValue) ==
    leftValue > 600 /\ GtU32(Sub32(currentMillis, sd.lastLeftStep), DEBOUNCE_TIME)


\* LeftFoot counting a strong step in its own counter only
LeftFootStrongUncounted(sd, currentMillis, leftValue) ==
    IF LeftAccepted(sd, currentMillis, leftValue)
    THEN [sd EXCEPT !.normal_L_steps = IF leftValue < 700 THEN Add32(@, 1) ELSE @,
                    !.strong_L_steps = IF leftValue < 700 THEN @ ELSE Add32(@, 1),
                    !.totalSteps = IF leftValue < 700 THEN Add32(@, 1) ELSE @,
                    !.lastLeftStep = currentMillis]
    ELSE sd

\* LeftFoot with one debounce timer for both channels
LeftFootSharedTimer(sd, currentMillis, leftValue) ==
    IF LeftAccepted(sd, currentMillis, leftValue)
    THEN [sd EXCEPT !.normal_L_steps = IF leftValue < 700 THEN Add32(@, 1) ELSE @,
                    !.strong_L_steps = IF leftValue < 700 THEN @ ELSE Add32(@, 1),
                    !.totalSteps = Add32(@, 1),
                    !.lastLeftStep = currentMillis,
                    !.lastRightStep = currentMillis]
    ELSE sd

LeftFoot(sd, currentMillis, leftValue) ==
    IF LeftAccepted(sd, currentMillis, leftValue)
    THEN [sd EXCEPT !.normal_L_steps = IF leftValue < 700 THEN Add32(@, 1) ELSE @,
                    !.strong_L_steps = IF leftValue < 700 THEN @ ELSE Add32(@, 1),
                    !.totalSteps = Add32(@, 1),
                    !.lastLeftStep = currentMillis]
    ELSE sd

RightAccepted(sd, currentMillis, rightValue) ==
    rightValue > 80 /\ GtU32(Sub32(currentMillis, sd.lastRightStep), DEBOUNCE_TIME)

\* RightFoot starting the normal count again at a strong step
RightFootStrongResetsNormal(sd, currentMillis, rightValue) ==
    IF RightAccepted(sd, currentMillis, rightValue)
    THEN [sd EXCEPT !.normal_R_steps = IF rightValue < 120 THEN Add32(@, 1) ELSE 0,
                    !.strong_R_steps = IF rightValue < 120 THEN @ ELSE Add32(@, 1),
                    !.totalSteps = Add32(@, 1),
                    !.lastRightStep = currentMillis]
    ELSE sd

RightFoot(sd, currentMillis, rightValue) ==
    IF RightAccepted(sd, currentMillis, rightValue)
    THEN [sd EXCEPT !.normal_R_steps = IF rightValue < 120 THEN Add32(@, 1) ELSE @,
                    !.strong_R_steps = IF rightValue < 120 THEN @ ELSE Add32(@, 1),
                    !.totalSteps = Add32(@, 1),
                    !.lastRightStep = currentMillis]
    ELSE sd

\* readPiezoSensors(): the left channel, then the right one, on one millis() value
readPiezoSensors(sd, currentMillis, leftValue, rightValue) ==
    RightFoot(LeftFoot(sd, currentMillis, leftValue), currentMillis, rightValue)

\* ---------------------------------------------------------------- position tracker
GPS_DISTANCE_THRESHOLD == 50000     \* 50.0 m, in millimetres

\* floor of the square root
RECURSIVE SqrtBetween(_, _, _)
SqrtBetween(n, lo, hi) ==
    IF lo >= hi THEN lo
    ELSE LET mid == (lo + hi + 1) \div 2
         IN IF mid * mid <= n THEN SqrtBetween(n, mid, hi) ELSE SqrtBetween(n, lo, mid - 1)

ISqrt(n) == SqrtBetween(n, 0, 46340)

\* calculateDistance(): the haversine distance on a sphere of radius 6371e3 m, in
\* millimetres, for coordinates in microdegrees.  The model's coordinates all lie within
\* 0.001 degrees of (0, 0), where cos(lat) = 1 to ten digits and the haversine formula
\* agrees with R * DEG_TO_RAD * sqrt(dLat^2 + dLon^2) to less than a millimetre;
\* R * DEG_TO_RAD is 111.195 mm per microdegree.  The square root is taken to a tenth of
\* a microdegree, so the result is within 12 mm of the code's.
calculateDistance(lat1, lon1, lat2, lon2) ==
    LET dLat == lat2 - lat1
        dLon == lon2 - lon1
    IN (ISqrt((dLat * dLat + dLon * dLon) * 100) * 111195) \div 10000

\* The coordinates (microdegrees) and speeds (thousandths of km/h) a sentence can carry
Positions == {<<0, 0>>, <<0, 500>>, <<500, 0>>, <<500, 500>>, <<900, 500>>, <<1000, 500>>}
Speeds == {1000, 2000, 5000}

\* What one byte handed to gps.encode() does: it completes no sentence ("byte"), or it
\* completes a sentence without a fix ("nofix"), or one with a position ("gga"), or one
\* with a position and a speed ("rmc").
Events ==
    {[kind |-> "byte"], [kind |-> "nofix"]}
    \cup {[kind |-> "gga", lat |-> p[1], lng |-> p[2]] : p \in Positions}
    \cup {[kind |-> "rmc", lat |-> p[1], lng |-> p[2], kmph |-> s] :
             p \in Positions, s \in Speeds}

\* TinyGPSPlus after construction: nothing valid, every value 0
GpsInit ==
    [locValid |-> FALSE, locUpdated |-> FALSE, lat |-> 0, lng |-> 0,
     speedValid |-> FALSE, kmph |-> 0]

\* gps.encode(byte): the object after the byte; a committed value becomes valid and
\* updated, and stays valid from then on
Encode(g, ev) ==
    CASE ev.kind = "gga" ->
            [g EXCEPT !.locValid = TRUE, !.locUpdated = TRUE, !.lat = ev.lat, !.lng = ev.lng]
      [] ev.kind = "rmc" ->
            [g EXCEPT !.locValid = TRUE, !.locUpdated = TRUE, !.lat = ev.lat, !.lng = ev.lng,
                      !.speedValid = TRUE, !.kmph = ev.kmph]
      [] OTHER -> g

\* the value gps.encode(byte) returns: a sentence was completed
Completed(ev) == ev.kind # "byte"

\* gps.location.lat() / lng(): reading the location clears its updated flag
LocationRead(g) == [g EXCEPT !.locUpdated = FALSE]

\* the condition of line 305
FixUsable(g) == g.locValid /\ g.locUpdated


\* Position adding the distance from (0, 0) when it seeds the stored position
PositionSeedAddsDistance(gd, g) ==
    LET distance == calculateDistance(gd.latitude, gd.longitude, g.lat, g.lng)
    IN IF gd.latitude # 0 /\ gd.longitude # 0
       THEN IF distance > GPS_DISTANCE_THRESHOLD /\ g.speedValid /\ g.kmph > 2000
            THEN [gd EXCEPT !.totalDistance = @ + distance,
                            !.latitude = g.lat, !.longitude = g.lng]
            ELSE gd
       ELSE [gd EXCEPT !.totalDistance = @ + distance,
                       !.latitude = g.lat, !.longitude = g.lng]

\* Position subtracting the distance of an adopted fix
PositionSubtracts(gd, g) ==
    IF gd.latitude # 0 /\ gd.longitude # 0
    THEN LET distance == calculateDistance(gd.latitude, gd.longitude, g.lat, g.lng)
         IN IF distance > GPS_DISTANCE_THRESHOLD /\ g.speedValid /\ g.kmph > 2000
            THEN [gd EXCEPT !.totalDistance = @ - distance,
                            !.latitude = g.lat, !.longitude = g.lng]
            ELSE gd
    ELSE [gd EXCEPT !.latitude = g.lat, !.longitude = g.lng]

\* Position filtering on the speed alone
PositionNoThreshold(gd, g) ==
    IF gd.latitude # 0 /\ gd.longitude # 0
    THEN LET distance == calculateDistance(gd.latitude, gd.longitude, g.lat, g.lng)
         IN IF g.speedValid /\ g.kmph > 2000
            THEN [gd EXCEPT !.totalDistance = @ + distance,
                            !.latitude = g.lat, !.longitude = g.lng]
            ELSE gd
    ELSE [gd EXCEPT !.latitude = g.lat, !.longitude = g.lng]

\* lines 309-325: the stored position and the cumulative distance after a usable fix
Position(gd, g) ==
    IF gd.latitude # 0 /\ gd.longitude # 0
    THEN LET distance == calculateDistance(gd.latitude, gd.longitude, g.lat, g.lng)
         IN IF distance > GPS_DISTANCE_THRESHOLD /\ g.speedValid /\ g.kmph > 2000
            THEN [gd EXCEPT !.totalDistance = @ + distance,
                            !.latitude = g.lat, !.longitude = g.lng]
            ELSE gd
    ELSE [gd EXCEPT !.latitude = g.lat, !.longitude = g.lng]


\* Speed recorded only from a fix that passes the speed filter
SpeedWhenMoving(gd, g) ==
    IF g.speedValid /\ g.kmph > 2000 THEN [gd EXCEPT !.speed = g.kmph] ELSE gd

\* lines 327-330: the stored speed after a usable fix
Speed(gd, g) == IF g.speedValid THEN [gd EXCEPT !.speed = g.kmph] ELSE gd

\* lines 304-332: one byte of the stream; g is the gps object after encode()
HandleByte(gd, g, ev) ==
    IF Completed(ev) /\ FixUsable(g) THEN Speed(Position(gd, g), g) ELSE gd

\* updateGPS(): every byte available on the serial port, in order
RECURSIVE updateGPS(_, _, _)
updateGPS(gd, g, bytes) ==
    IF bytes = <<>> THEN [gpsData |-> gd, gps |-> g]
    ELSE LET ev == Head(bytes)
             g1 == Encode(g, ev)
             used == Completed(ev) /\ FixUsable(g1)
         IN updateGPS(HandleByte(gd, g1, ev),
                      IF used THEN LocationRead(g1) ELSE g1,
                      Tail(bytes))

\* history of updateGPS(): one entry per usable fix, with the stored data before and
\* after it, the fix and its ordinal since power-on
RECURSIVE FixLog(_, _, _, _)
FixLog(gd, g, bytes, n) ==
    IF bytes = <<>> THEN <<>>
    ELSE LET ev == Head(bytes)
             g1 == Encode(g, ev)
             used == Completed(ev) /\ FixUsable(g1)
             gd1 == HandleByte(gd, g1, ev)
         IN IF used
            THEN <<[n |-> n + 1, before |-> gd, after |-> gd1, lat |-> g1.lat,
                    lng |-> g1.lng, speedValid |-> g1.speedValid, kmph |-> g1.kmph]>>
                 \o FixLog(gd1, LocationRead(g1), Tail(bytes), n + 1)
            ELSE FixLog(gd1, g1, Tail(bytes), n)

\* ---------------------------------------------------------------- inertial reader
\* CALIBRATION_OFFSETS[i][j] in units of 1e-4, row i + 1, column j + 1
CALIBRATION_OFFSETS ==
    << <<-11080, -1500, -7575, -644,  565, -333>>,
       <<-12084,  1500, -2682, -635,  -76, -283>>,
       <<  3000, -3362,  -631,  171, -112,   97>> >>

Sensors == 0 .. NUM_IMUS - 1

\* imuData of one sensor at power-on: a global without initialiser is zero-initialised
SensorDataInit ==
    [accel |-> <<0, 0, 0>>, gyro |-> <<0, 0, 0>>,
     calibratedAccel |-> <<0, 0, 0>>, calibratedGyro |-> <<0, 0, 0>>]

\* The samples getEvent() can deliver (units of 1e-4 m/s^2 and rad/s)
Samples ==
    {[accel |-> <<0, 0, 98100>>,         gyro |-> <<0, 0, 0>>],
     [accel |-> <<-11080, 1500, -2682>>, gyro |-> <<171, 565, -283>>],
     [accel |-> <<25000, -40000, 60000>>, gyro |-> <<-3000, 1200, 45>>]}

\* What imus[i].getEvent() does: it fails, or it delivers a sample
Reads == {[ok |-> FALSE]} \cup {[ok |-> TRUE, accel |-> m.accel, gyro |-> m.gyro] : m \in Samples}


\* StoreSample taking the gyroscope offsets from the accelerometer columns
StoreSampleAccelOffsets(i, rd) ==
    [accel |-> rd.accel,
     gyro |-> rd.gyro,
     calibratedAccel |-> [j \in 1 .. 3 |-> rd.accel[j] - CALIBRATION_OFFSETS[i + 1][j]],
     calibratedGyro |-> [j \in 1 .. 3 |-> rd.gyro[j] - CALIBRATION_OFFSETS[i + 1][j]]]

\* lines 276-290: the sensor's data after a successful read
StoreSample(i, rd) ==
    [accel |-> rd.accel,
     gyro |-> rd.gyro,
     calibratedAccel |-> [j \in 1 .. 3 |-> rd.accel[j] - CALIBRATION_OFFSETS[i + 1][j]],
     calibratedGyro |-> [j \in 1 .. 3 |-> rd.gyro[j] - CALIBRATION_OFFSETS[i + 1][j + 3]]]

\* readAllIMUs that zeroes the values of a sensor whose read fails
readAllIMUsFailedZeroed(imu, reads) ==
    [i \in Sensors |-> IF reads[i].ok THEN StoreSample(i, reads[i]) ELSE SensorDataInit]

\* readAllIMUs(): every sensor in turn; a failed read skips the sensor
readAllIMUs(imu, reads) ==
    [i \in Sensors |-> IF reads[i].ok THEN StoreSample(i, reads[i]) ELSE imu[i]]

\* ---------------------------------------------------------------- recorder
\* millis() / 1000 on the 32-bit pattern (2^32 = 4294967 * 1000 + 296)
Seconds(ms) ==
    IF ms >= 0 THEN ms \div 1000 ELSE 4294967 + ((ms + 296) \div 1000)

\* Print::print(double, digits): x, given in units of 10^-(digits + drop), rounded half
\* away from zero to units of 10^-digits; scale is 10^drop
PrintFloat(x, scale) ==
    IF x < 0 THEN -((-x + scale \div 2) \div scale) ELSE (x + scale \div 2) \div scale

HeaderLine == [kind |-> "header"]

\* lines 413-437: the data line
RecordLine(ms, imu, gd, sd) ==
    [kind |-> "record",
     timestamp |-> Seconds(ms),
     imu |-> [i \in Sensors |->
                 [j \in 1 .. 6 |->
                     IF j <= 3 THEN PrintFloat(imu[i].calibratedAccel[j], 100)
                     ELSE PrintFloat(imu[i].calibratedGyro[j - 3], 100)]],
     latitude |-> PrintFloat(gd.latitude, 1),
     longitude |-> PrintFloat(gd.longitude, 1),
     speed_kmh |-> PrintFloat(gd.speed, 100),
     total_distance |-> PrintFloat(gd.totalDistance, 10),
     total_steps |-> sd.totalSteps,
     normal_R |-> sd.normal_R_steps,
     normal_L |-> sd.normal_L_steps,
     strong_R |-> sd.strong_R_steps,
     strong_L |-> sd.strong_L_steps]


\* logData never setting the flag
logDataFlagUnset(file, written, opened, ms, imu, gd, sd) ==
    IF opened
    THEN [logFile |-> (IF written THEN file ELSE Append(file, HeaderLine))
                          \o <<RecordLine(ms, imu, gd, sd)>>,
          headerWritten |-> written]
    ELSE [logFile |-> file, headerWritten |-> written]

\* logData that sets the header flag even when the file does not open
logDataFlagAlways(file, written, opened, ms, imu, gd, sd) ==
    IF opened
    THEN [logFile |-> (IF written THEN file ELSE Append(file, HeaderLine))
                          \o <<RecordLine(ms, imu, gd, sd)>>,
          headerWritten |-> TRUE]
    ELSE [logFile |-> file, headerWritten |-> TRUE]

\* logData(): the lines appended and the flag, given whether SD.open() succeeded
logData(file, written, opened, ms, imu, gd, sd) ==
    IF opened
    THEN [logFile |-> (IF written THEN file ELSE Append(file, HeaderLine))
                          \o <<RecordLine(ms, imu, gd, sd)>>,
          headerWritten |-> TRUE]
    ELSE [logFile |-> file, headerWritten |-> written]

\* ---------------------------------------------------------------- display
\* updateDisplay switching to kilometres only above 1000 m
updateDisplayKmAbove(ms, gd, sd) ==
    LET totalSeconds == Seconds(ms)
    IN [hours |-> (totalSeconds \div 3600) % 256,
        mins |-> (totalSeconds % 3600) \div 60,
        secs |-> totalSeconds % 60,
        speed |-> PrintFloat(gd.speed, 100),
        unit |-> IF gd.totalDistance <= 1000000 THEN "m" ELSE "km",
        dist |-> IF gd.totalDistance <= 1000000
                 THEN PrintFloat(gd.totalDistance, 100)
                 ELSE PrintFloat(gd.totalDistance, 10000),
        steps |-> sd.totalSteps]

\* updateDisplay(): the frame presented
updateDisplay(ms, gd, sd) ==
    LET totalSeconds == Seconds(ms)
    IN [hours |-> (totalSeconds \div 3600) % 256,
        mins |-> (totalSeconds % 3600) \div 60,
        secs |-> totalSeconds % 60,
        speed |-> PrintFloat(gd.speed, 100),
        unit |-> IF gd.totalDistance < 1000000 THEN "m" ELSE "km",
        dist |-> IF gd.totalDistance < 1000000
                 THEN PrintFloat(gd.totalDistance, 100)
                 ELSE PrintFloat(gd.totalDistance, 10000),
        steps |-> sd.totalSteps]

\* printf("%d") of a number that is not negative
DigitChar(d) ==
    CASE d = 0 -> "0" [] d = 1 -> "1" [] d = 2 -> "2" [] d = 3 -> "3" [] d = 4 -> "4"
      [] d = 5 -> "5" [] d = 6 -> "6" [] d = 7 -> "7" [] d = 8 -> "8" [] d = 9 -> "9"

RECURSIVE Decimal(_)
Decimal(n) == IF n < 10 THEN DigitChar(n) ELSE Decimal(n \div 10) \o DigitChar(n % 10)

\* lines 467-471: the text after "Dist: " of a frame, "%.1fm" of the tenths of a metre or
\* "%.2fkm" of the hundredths of a kilometre the frame holds
DistanceText(f) ==
    IF f.unit = "m"
    THEN Decimal(f.dist \div 10) \o "." \o DigitChar(f.dist % 10) \o "m"
    ELSE Decimal(f.dist \div 100) \o "." \o DigitChar((f.dist \div 10) % 10)
             \o DigitChar(f.dist % 10) \o "km"

NoFrame == [unit |-> "none"]

\* ---------------------------------------------------------------- power-on state
GpsDataInit == [latitude |-> 0, longitude |-> 0, speed |-> 0, totalDistance |-> 0]

StepDataInit ==
    [totalSteps |-> 0, normal_L_steps |-> 0, normal_R_steps |-> 0, strong_L_steps |-> 0,
     strong_R_steps |-> 0, lastLeftStep |-> 0, lastRightStep |-> 0]

NoPass == [now |-> 0, ran |-> {}, before |-> <<0, 0, 0, 0, 0>>, order |-> <<>>]

\* nothing found yet: no device probed, no sensor read, no sample taken, no store opened
NoInputs ==
    [imusFound |-> FALSE, displayFound |-> FALSE, sdFound |-> FALSE,
     reads |-> [i \in Sensors |-> [ok |-> FALSE]],
     leftValue |-> 0, rightValue |-> 0, millis |-> 0, opened |-> FALSE]

Init ==
    /\ pc = "setup"
    /\ clock = 0
    /\ lastGpsUpdate = 0
    /\ lastSensorUpdate = 0
    /\ lastPiezoUpdate = 0
    /\ lastLogTime = 0
    /\ lastDisplayUpdate = 0
    /\ imuData = [i \in Sensors |-> SensorDataInit]
    /\ gpsData = GpsDataInit
    /\ stepData = StepDataInit
    /\ headerWritten = FALSE
    /\ gps = GpsInit
    /\ logFile = <<>>
    /\ frame = NoFrame
    /\ calls = 0
    /\ pulses = [L |-> <<>>, R |-> <<>>]
    /\ fixes = [n |-> 0, log |-> <<>>]
    /\ pass = NoPass
    /\ inputs = NoInputs

timers == <<lastGpsUpdate, lastSensorUpdate, lastPiezoUpdate, lastLogTime, lastDisplayUpdate>>
sensed == <<imuData, gpsData, stepData, gps>>
shown == <<headerWritten, logFile, frame>>
history == <<pulses, fixes, pass>>

\* ---------------------------------------------------------------- setup()
\* Time setup() takes when it returns: delay(1000) plus the initialisation calls
SetupTimes == {1000}

\* setup() that goes on without the display
SetupDisplayOptional(imusFound, displayFound, sdFound, t) ==
    /\ pc = "setup"
    /\ pc' = IF imusFound THEN "loop" ELSE "halted"
    /\ clock' = IF imusFound THEN Add32(clock, t) ELSE clock
    /\ frame' = IF imusFound /\ displayFound /\ ~sdFound THEN [unit |-> "SD Init Fail!"] ELSE frame
    /\ inputs' = [inputs EXCEPT !.imusFound = imusFound, !.displayFound = displayFound,
                                !.sdFound = sdFound]
    /\ UNCHANGED <<timers, sensed, headerWritten, logFile, calls, history>>

\* setup(): halts in while(1) when an IMU or the display is not found; an SD failure is
\* reported and setup() returns
Setup(imusFound, displayFound, sdFound, t) ==
    /\ pc = "setup"
    /\ pc' = IF imusFound /\ displayFound THEN "loop" ELSE "halted"
    /\ clock' = IF imusFound /\ displayFound THEN Add32(clock, t) ELSE clock
    /\ frame' = IF imusFound /\ displayFound /\ ~sdFound THEN [unit |-> "SD Init Fail!"] ELSE frame
    /\ inputs' = [inputs EXCEPT !.imusFound = imusFound, !.displayFound = displayFound,
                                !.sdFound = sdFound]
    /\ UNCHANGED <<timers, sensed, headerWritten, logFile, calls, history>>

SetupStep ==
    \E imusFound \in BOOLEAN, displayFound \in BOOLEAN, sdFound \in BOOLEAN, t \in SetupTimes :
        Setup(imusFound, displayFound, sdFound, t)

\* ---------------------------------------------------------------- the handlers on their own
\* Each handler called any number of times after setup(), with any inputs.

\* Time between two readPiezoSensors calls: the loop calls it at most every 20 ms
StepDeltas == {20, 199, 200, 201}

\* history of readPiezoSensors(): a sample above the detect threshold, with the clock
\* value, the channel's last-accepted timestamp it was compared with, and the verdict
Pulse(t, last, accepted) == [t |-> t, last |-> last, accepted |-> accepted]

PulseLog(log, sd, t, leftValue, rightValue) ==
    [L |-> IF leftValue > 600
           THEN Append(log.L, Pulse(t, sd.lastLeftStep, LeftAccepted(sd, t, leftValue)))
           ELSE log.L,
     R |-> IF rightValue > 80
           THEN Append(log.R, Pulse(t, sd.lastRightStep, RightAccepted(sd, t, rightValue)))
           ELSE log.R]

PiezoCall(d, leftValue, rightValue) ==
    /\ pc = "loop"
    /\ calls < MaxStepCalls
    /\ calls' = calls + 1
    /\ stepData' = readPiezoSensors(stepData, clock, leftValue, rightValue)
    /\ pulses' = PulseLog(pulses, stepData, clock, leftValue, rightValue)
    /\ clock' = Add32(clock, d)
    /\ inputs' = [inputs EXCEPT !.leftValue = leftValue, !.rightValue = rightValue,
                                !.millis = clock]
    /\ UNCHANGED <<pc, timers, imuData, gpsData, gps, shown, fixes, pass>>

PiezoStep ==
    \E d \in StepDeltas, leftValue \in LeftValues, rightValue \in RightValues :
        PiezoCall(d, leftValue, rightValue)

SpecSteps == Init /\ [][SetupStep \/ PiezoStep]_vars

\* the byte streams of at most n bytes one updateGPS call can find on the serial port
ByteStreams(n) == UNION {[1 .. k -> Events] : k \in 0 .. n}

GpsCall(bytes) ==
    /\ pc = "loop"
    /\ calls' = calls + Len(bytes)
    /\ LET r == updateGPS(gpsData, gps, bytes)
           log == FixLog(gpsData, gps, bytes, fixes.n)
       IN /\ gpsData' = r.gpsData
          /\ gps' = r.gps
          /\ fixes' = [n |-> fixes.n + Len(log), log |-> log]
    /\ UNCHANGED <<pc, clock, timers, imuData, stepData, shown, pulses, pass, inputs>>

GpsStep == \E bytes \in ByteStreams(MaxGpsBytes - calls) : GpsCall(bytes)

SpecGPS == Init /\ [][SetupStep \/ GpsStep]_vars

ImuCall(reads) ==
    /\ pc = "loop"
    /\ calls < MaxImuCalls
    /\ calls' = calls + 1
    /\ imuData' = readAllIMUs(imuData, reads)
    /\ inputs' = [inputs EXCEPT !.reads = reads]
    /\ UNCHANGED <<pc, clock, timers, gpsData, stepData, gps, shown, history>>

ImuStep == \E reads \in [Sensors -> Reads] : ImuCall(reads)

SpecIMU == Init /\ [][SetupStep \/ ImuStep]_vars

\* Time between two logData calls: the loop calls it at most every 1000 ms
LogDeltas == {1000, 1500}

LogCall(opened, d) ==
    /\ pc = "loop"
    /\ calls < MaxLogCalls
    /\ calls' = calls + 1
    /\ LET r == logData(logFile, headerWritten, opened, clock, imuData, gpsData, stepData)
       IN /\ logFile' = r.logFile
          /\ headerWritten' = r.headerWritten
    /\ clock' = Add32(clock, d)
    /\ inputs' = [inputs EXCEPT !.opened = opened, !.millis = clock]
    /\ UNCHANGED <<pc, timers, sensed, frame, history>>

LogStep == \E opened \in BOOLEAN, d \in LogDeltas : LogCall(opened, d)

SpecLog == Init /\ [][SetupStep \/ LogStep]_vars


\* Cumulative distances (mm) the display is called with: none, one hop, either side of
\* 1000 m, and beyond
DisplayDistances ==
    {0, 50001, 999000, 999949, 999960, 1000000, 1000004, 1004999, 1234567, 12345678}

\* the state after a walk that left the cumulative distance at one of DisplayDistances
InitDisplay ==
    /\ pc = "setup"
    /\ clock = 0
    /\ lastGpsUpdate = 0
    /\ lastSensorUpdate = 0
    /\ lastPiezoUpdate = 0
    /\ lastLogTime = 0
    /\ lastDisplayUpdate = 0
    /\ imuData = [i \in Sensors |-> SensorDataInit]
    /\ gpsData \in {[latitude |-> 500, longitude |-> 500, speed |-> 5000,
                     totalDistance |-> x] : x \in DisplayDistances}
    /\ stepData = StepDataInit
    /\ headerWritten = FALSE
    /\ gps = GpsInit
    /\ logFile = <<>>
    /\ frame = NoFrame
    /\ calls = 0
    /\ pulses = [L |-> <<>>, R |-> <<>>]
    /\ fixes = [n |-> 0, log |-> <<>>]
    /\ pass = NoPass
    /\ inputs = NoInputs

\* Time between two updateDisplay calls: the loop calls it at most every 1000 ms
DisplayDeltas == {1000, 1500}

DisplayCall(d) ==
    /\ pc = "loop"
    /\ calls < MaxDisplayCalls
    /\ calls' = calls + 1
    /\ frame' = updateDisplay(clock, gpsData, stepData)
    /\ clock' = Add32(clock, d)
    /\ inputs' = [inputs EXCEPT !.millis = clock]
    /\ UNCHANGED <<pc, timers, sensed, headerWritten, logFile, history>>

DisplayStep == \E d \in DisplayDeltas : DisplayCall(d)

SpecDisplay == InitDisplay /\ [][SetupStep \/ DisplayStep]_vars

\* Due comparing currentTime with lastRun + interval, the sum not reduced modulo 2^32
\* (unsigned values compared after subtracting 2^31 from both)
DueNoWrap(currentTime, lastRun, interval) ==
    LET c == IF currentTime >= 0 THEN currentTime + MinInt32 ELSE currentTime - MinInt32
        l == IF lastRun >= 0 THEN lastRun + MinInt32 ELSE lastRun - MinInt32
    IN l <= MaxInt32 - interval /\ c >= l + interval

\* Due with a strict comparison
DueStrict(currentTime, lastRun, interval) == GtU32(Sub32(currentTime, lastRun), interval)

\* ---------------------------------------------------------------- loop()
\* the condition of each task: currentTime - lastRun >= interval, in unsigned arithmetic
Due(currentTime, lastRun, interval) == GeU32(Sub32(currentTime, lastRun), interval)

\* The inputs the passes of Spec draw from, for the tasks that run: a stream with two
\* fixes 55.6 m apart, reads that all succeed or fail for sensor 1, a strong step on
\* each foot, a store that opens or does not
LoopStreams ==
    {<<[kind |-> "rmc", lat |-> 500, lng |-> 500, kmph |-> 5000],
       [kind |-> "rmc", lat |-> 1000, lng |-> 500, kmph |-> 5000]>>}
LoopReads ==
    {[i \in Sensors |-> [ok |-> TRUE, accel |-> <<0, 0, 98100>>, gyro |-> <<0, 0, 0>>]],
     [i \in Sensors |-> IF i = 1 THEN [ok |-> FALSE]
                        ELSE [ok |-> TRUE, accel |-> <<25000, -40000, 60000>>,
                              gyro |-> <<-3000, 1200, 45>>]]}
LoopLeft == {700}
LoopRight == {120}
\* Time from the pass's millis() to the millis() calls inside its tasks
TaskTimes == {1}
\* Time from the pass's millis() to the next pass's: the tasks and delay(10)
PassTimes == {11, 89, 900}

\* a pass that advances each lastRun by one interval, to make up the ticks missed in a
\* stall in the passes that follow
LoopBodyCatchUp(d, j, bytes, reads, leftValue, rightValue, opened) ==
    /\ pc = "loop"
    /\ d >= j + 10
    /\ LET currentTime == clock
           gpsDue == Due(currentTime, lastGpsUpdate, GPS_UPDATE_INTERVAL)
           imuDue == Due(currentTime, lastSensorUpdate, SENSOR_UPDATE_INTERVAL)
           piezoDue == Due(currentTime, lastPiezoUpdate, PIEZO_UPDATE_INTERVAL)
           logDue == Due(currentTime, lastLogTime, 1000)
           displayDue == Due(currentTime, lastDisplayUpdate, 1000)
           millis == Add32(currentTime, j)
           g == IF gpsDue THEN updateGPS(gpsData, gps, bytes)
                ELSE [gpsData |-> gpsData, gps |-> gps]
           log == IF gpsDue THEN FixLog(gpsData, gps, bytes, fixes.n) ELSE <<>>
           imu == IF imuDue THEN readAllIMUs(imuData, reads) ELSE imuData
           sd == IF piezoDue THEN readPiezoSensors(stepData, millis, leftValue, rightValue)
                 ELSE stepData
           rec == IF logDue
                  THEN logData(logFile, headerWritten, opened, millis, imu, g.gpsData, sd)
                  ELSE [logFile |-> logFile, headerWritten |-> headerWritten]
       IN /\ gpsData' = g.gpsData
          /\ gps' = g.gps
          /\ lastGpsUpdate' = IF gpsDue THEN Add32(lastGpsUpdate, GPS_UPDATE_INTERVAL) ELSE lastGpsUpdate
          /\ imuData' = imu
          /\ lastSensorUpdate' = IF imuDue THEN Add32(lastSensorUpdate, SENSOR_UPDATE_INTERVAL) ELSE lastSensorUpdate
          /\ stepData' = sd
          /\ lastPiezoUpdate' = IF piezoDue THEN Add32(lastPiezoUpdate, PIEZO_UPDATE_INTERVAL) ELSE lastPiezoUpdate
          /\ logFile' = rec.logFile
          /\ headerWritten' = rec.headerWritten
          /\ lastLogTime' = IF logDue THEN Add32(lastLogTime, 1000) ELSE lastLogTime
          /\ frame' = IF displayDue THEN updateDisplay(millis, g.gpsData, sd) ELSE frame
          /\ lastDisplayUpdate' = IF displayDue THEN Add32(lastDisplayUpdate, 1000) ELSE lastDisplayUpdate
          /\ fixes' = IF gpsDue THEN [n |-> fixes.n + Len(log), log |-> log] ELSE fixes
          /\ pulses' = IF piezoDue
                       THEN PulseLog(pulses, stepData, millis, leftValue, rightValue)
                       ELSE pulses
          /\ pass' = [now |-> currentTime,
                      ran |-> {t \in {"gps", "imu", "piezo", "log", "display"} :
                                  \/ t = "gps" /\ gpsDue
                                  \/ t = "imu" /\ imuDue
                                  \/ t = "piezo" /\ piezoDue
                                  \/ t = "log" /\ logDue
                                  \/ t = "display" /\ displayDue},
                      before |-> timers,
                      order |-> (IF gpsDue THEN <<"gps">> ELSE <<>>)
                                \o (IF imuDue THEN <<"imu">> ELSE <<>>)
                                \o (IF piezoDue THEN <<"piezo">> ELSE <<>>)
                                \o (IF logDue THEN <<"log">> ELSE <<>>)
                                \o (IF displayDue THEN <<"display">> ELSE <<>>)]
          /\ inputs' = [inputs EXCEPT !.reads = reads, !.leftValue = leftValue,
                                      !.rightValue = rightValue, !.millis = millis,
                                      !.opened = opened]
    /\ clock' = Add32(clock, d)
    /\ UNCHANGED pc

\* a pass that runs the record and display tasks first, on the data of the pass before
LoopBodyRecorderFirst(d, j, bytes, reads, leftValue, rightValue, opened) ==
    /\ pc = "loop"
    /\ d >= j + 10
    /\ LET currentTime == clock
           gpsDue == Due(currentTime, lastGpsUpdate, GPS_UPDATE_INTERVAL)
           imuDue == Due(currentTime, lastSensorUpdate, SENSOR_UPDATE_INTERVAL)
           piezoDue == Due(currentTime, lastPiezoUpdate, PIEZO_UPDATE_INTERVAL)
           logDue == Due(currentTime, lastLogTime, 1000)
           displayDue == Due(currentTime, lastDisplayUpdate, 1000)
           millis == Add32(currentTime, j)
           g == IF gpsDue THEN updateGPS(gpsData, gps, bytes)
                ELSE [gpsData |-> gpsData, gps |-> gps]
           log == IF gpsDue THEN FixLog(gpsData, gps, bytes, fixes.n) ELSE <<>>
           imu == IF imuDue THEN readAllIMUs(imuData, reads) ELSE imuData
           sd == IF piezoDue THEN readPiezoSensors(stepData, millis, leftValue, rightValue)
                 ELSE stepData
           rec == IF logDue
                  THEN logData(logFile, headerWritten, opened, millis, imuData, gpsData, stepData)
                  ELSE [logFile |-> logFile, headerWritten |-> headerWritten]
       IN /\ gpsData' = g.gpsData
          /\ gps' = g.gps
          /\ lastGpsUpdate' = IF gpsDue THEN currentTime ELSE lastGpsUpdate
          /\ imuData' = imu
          /\ lastSensorUpdate' = IF imuDue THEN currentTime ELSE lastSensorUpdate
          /\ stepData' = sd
          /\ lastPiezoUpdate' = IF piezoDue THEN currentTime ELSE lastPiezoUpdate
          /\ logFile' = rec.logFile
          /\ headerWritten' = rec.headerWritten
          /\ lastLogTime' = IF logDue THEN currentTime ELSE lastLogTime
          /\ frame' = IF displayDue THEN updateDisplay(millis, gpsData, stepData) ELSE frame
          /\ lastDisplayUpdate' = IF displayDue THEN currentTime ELSE lastDisplayUpdate
          /\ fixes' = IF gpsDue THEN [n |-> fixes.n + Len(log), log |-> log] ELSE fixes
          /\ pulses' = IF piezoDue
                       THEN PulseLog(pulses, stepData, millis, leftValue, rightValue)
                       ELSE pulses
          /\ pass' = [now |-> currentTime,
                      ran |-> {t \in {"gps", "imu", "piezo", "log", "display"} :
                                  \/ t = "gps" /\ gpsDue
                                  \/ t = "imu" /\ imuDue
                                  \/ t = "piezo" /\ piezoDue
                                  \/ t = "log" /\ logDue
                                  \/ t = "display" /\ displayDue},
                      before |-> timers,
                      order |-> (IF logDue THEN <<"log">> ELSE <<>>)
                                \o (IF displayDue THEN <<"display">> ELSE <<>>)
                                \o (IF gpsDue THEN <<"gps">> ELSE <<>>)
                                \o (IF imuDue THEN <<"imu">> ELSE <<>>)
                                \o (IF piezoDue THEN <<"piezo">> ELSE <<>>)]
          /\ inputs' = [inputs EXCEPT !.reads = reads, !.leftValue = leftValue,
                                      !.rightValue = rightValue, !.millis = millis,
                                      !.opened = opened]
    /\ clock' = Add32(clock, d)
    /\ UNCHANGED pc

\* the body of loop(): one pass.  The due tasks run in the order of the code, each on the data the
\* earlier ones left; bytes, reads, leftValue, rightValue and opened are what the tasks
\* find, j the time the tasks have taken when they call millis(), d the duration of the
\* pass.
LoopBody(d, j, bytes, reads, leftValue, rightValue, opened) ==
    /\ pc = "loop"
    /\ d >= j + 10
    /\ LET currentTime == clock
           gpsDue == Due(currentTime, lastGpsUpdate, GPS_UPDATE_INTERVAL)
           imuDue == Due(currentTime, lastSensorUpdate, SENSOR_UPDATE_INTERVAL)
           piezoDue == Due(currentTime, lastPiezoUpdate, PIEZO_UPDATE_INTERVAL)
           logDue == Due(currentTime, lastLogTime, 1000)
           displayDue == Due(currentTime, lastDisplayUpdate, 1000)
           millis == Add32(currentTime, j)
           g == IF gpsDue THEN updateGPS(gpsData, gps, bytes)
                ELSE [gpsData |-> gpsData, gps |-> gps]
           log == IF gpsDue THEN FixLog(gpsData, gps, bytes, fixes.n) ELSE <<>>
           imu == IF imuDue THEN readAllIMUs(imuData, reads) ELSE imuData
           sd == IF piezoDue THEN readPiezoSensors(stepData, millis, leftValue, rightValue)
                 ELSE stepData
           rec == IF logDue
                  THEN logData(logFile, headerWritten, opened, millis, imu, g.gpsData, sd)
                  ELSE [logFile |-> logFile, headerWritten |-> headerWritten]
       IN /\ gpsData' = g.gpsData
          /\ gps' = g.gps
          /\ lastGpsUpdate' = IF gpsDue THEN currentTime ELSE lastGpsUpdate
          /\ imuData' = imu
          /\ lastSensorUpdate' = IF imuDue THEN currentTime ELSE lastSensorUpdate
          /\ stepData' = sd
          /\ lastPiezoUpdate' = IF piezoDue THEN currentTime ELSE lastPiezoUpdate
          /\ logFile' = rec.logFile
          /\ headerWritten' = rec.headerWritten
          /\ lastLogTime' = IF logDue THEN currentTime ELSE lastLogTime
          /\ frame' = IF displayDue THEN updateDisplay(millis, g.gpsData, sd) ELSE frame
          /\ lastDisplayUpdate' = IF displayDue THEN currentTime ELSE lastDisplayUpdate
          /\ fixes' = IF gpsDue THEN [n |-> fixes.n + Len(log), log |-> log] ELSE fixes
          /\ pulses' = IF piezoDue
                       THEN PulseLog(pulses, stepData, millis, leftValue, rightValue)
                       ELSE pulses
          /\ pass' = [now |-> currentTime,
                      ran |-> {t \in {"gps", "imu", "piezo", "log", "display"} :
                                  \/ t = "gps" /\ gpsDue
                                  \/ t = "imu" /\ imuDue
                                  \/ t = "piezo" /\ piezoDue
                                  \/ t = "log" /\ logDue
                                  \/ t = "display" /\ displayDue},
                      before |-> timers,
                      order |-> (IF gpsDue THEN <<"gps">> ELSE <<>>)
                                \o (IF imuDue THEN <<"imu">> ELSE <<>>)
                                \o (IF piezoDue THEN <<"piezo">> ELSE <<>>)
                                \o (IF logDue THEN <<"log">> ELSE <<>>)
                                \o (IF displayDue THEN <<"display">> ELSE <<>>)]
          /\ inputs' = [inputs EXCEPT !.reads = reads, !.leftValue = leftValue,
                                      !.rightValue = rightValue, !.millis = millis,
                                      !.opened = opened]
    /\ clock' = Add32(clock, d)
    /\ UNCHANGED pc

\* loop(): one pass, counted
LoopPass(d, j, bytes, reads, leftValue, rightValue, opened) ==
    /\ calls < MaxPasses
    /\ calls' = calls + 1
    /\ LoopBody(d, j, bytes, reads, leftValue, rightValue, opened)

\* A task that does not run takes no input
LoopStep ==
    \E d \in PassTimes :
    \E bytes \in IF Due(clock, lastGpsUpdate, GPS_UPDATE_INTERVAL) THEN LoopStreams ELSE {<<>>} :
    \E reads \in IF Due(clock, lastSensorUpdate, SENSOR_UPDATE_INTERVAL)
                 THEN LoopReads ELSE {[i \in Sensors |-> [ok |-> FALSE]]} :
    \E leftValue \in IF Due(clock, lastPiezoUpdate, PIEZO_UPDATE_INTERVAL)
                     THEN LoopLeft ELSE {0} :
    \E rightValue \in IF Due(clock, lastPiezoUpdate, PIEZO_UPDATE_INTERVAL)
                      THEN LoopRight ELSE {0} :
    \E opened \in IF Due(clock, lastLogTime, 1000) THEN BOOLEAN ELSE {FALSE} :
    \E j \in IF \/ Due(clock, lastPiezoUpdate, PIEZO_UPDATE_INTERVAL)
                \/ Due(clock, lastLogTime, 1000)
                \/ Due(clock, lastDisplayUpdate, 1000)
             THEN TaskTimes ELSE {0} :
        LoopPass(d, j, bytes, reads, leftValue, rightValue, opened)

Next == SetupStep \/ LoopStep

Spec == Init /\ [][Next]_vars

\* ---------------------------------------------------------------- loop() for ever
\* The loop running without end, across the wrap of millis() at 2^32 ms.  The passes
\* take LiveTimes while millis() is within LiveWindow ms of the wrap (and after setup());
\* once millis() is LiveWindow past it the loop stalls, in two passes, until LiveWindow
\* before the next wrap.  Nothing arrives from the receiver, the sensors do not answer,
\* no foot presses and the store does not open, so that only the clock, the timers and
\* the frame change.
LiveWindow == 2000
LiveTimes == {50, 500}

LiveDurations(now) ==
    IF now >= LiveWindow
    THEN {IF Sub32(-LiveWindow, now) > 0 THEN Sub32(-LiveWindow, now) ELSE MaxInt32 - now}
    ELSE LiveTimes

LivePass(d) ==
    /\ LoopBody(d, 1, <<>>, [i \in Sensors |-> [ok |-> FALSE]], 0, 0, FALSE)
    /\ UNCHANGED calls

LiveStep == \E d \in LiveDurations(clock) : LivePass(d)

\* loop() is called again whenever it returns, and setup() runs at power-on
SpecLive ==
    Init /\ [][SetupStep \/ LiveStep]_vars /\ WF_vars(SetupStep) /\ WF_vars(LiveStep)

\* ================================================================ properties

\* ---------------------------------------------------------------- step classifier
\* C1: in every state reached by readPiezoSensors calls, totalSteps is the sum of the
\* four classified counters.
C1_TotalIsSum ==
    stepData.totalSteps = stepData.normal_L_steps + stepData.normal_R_steps
                          + stepData.strong_L_steps + stepData.strong_R_steps

\* C1 witness: steps of several classes have been counted
C1_Witness ==
    /\ stepData.totalSteps >= 3
    /\ stepData.normal_L_steps >= 1
    /\ stepData.strong_L_steps >= 1
    /\ stepData.strong_R_steps >= 1

\* the pairs of pulses of one channel whose clock times are less than 200 ms apart
ClosePairs(log) ==
    {p \in (DOMAIN log) \X (DOMAIN log) :
        p[1] < p[2] /\ LtU32(Sub32(log[p[2]].t, log[p[1]].t), 200)}

Accepted(log, p) == {i \in {p[1], p[2]} : log[i].accepted}

\* C2 as stated: two pulses of a channel less than 200 ms apart give exactly one
\* accepted step.
C2_ExactlyOne ==
    \A ch \in {"L", "R"} : \A p \in ClosePairs(pulses[ch]) :
        Cardinality(Accepted(pulses[ch], p)) = 1

\* C2 amended: two pulses of a channel less than 200 ms apart never give two accepted
\* steps: if the first is accepted the second is rejected, so they give exactly one when
\* the first comes more than 200 ms after the channel's last-accepted timestamp; a pulse
\* of the pair is rejected only when it comes within 200 ms of the last-accepted
\* timestamp it is compared with.
C2_AtMostOne ==
    \A ch \in {"L", "R"} : \A p \in ClosePairs(pulses[ch]) :
        LET log == pulses[ch]
            first == log[p[1]]
            second == log[p[2]]
        IN /\ ~(first.accepted /\ second.accepted)
           /\ GtU32(Sub32(first.t, first.last), 200) => first.accepted /\ ~second.accepted
           /\ \A q \in {first, second} :
                  ~q.accepted => ~GtU32(Sub32(q.t, q.last), 200)

\* C2 witness: a pulse was accepted and a later one, less than 200 ms after it, rejected
C2_Witness ==
    \E ch \in {"L", "R"} : \E p \in ClosePairs(pulses[ch]) :
        pulses[ch][p[1]].accepted /\ ~pulses[ch][p[2]].accepted

\* ---------------------------------------------------------------- position tracker
\* the distance the code computes for a handled fix, and whether the fix became the
\* stored position or left it alone
FixDistance(e) == calculateDistance(e.before.latitude, e.before.longitude, e.lat, e.lng)
Adopted(e) == e.after.latitude = e.lat /\ e.after.longitude = e.lng
PositionKept(e) ==
    e.after.latitude = e.before.latitude /\ e.after.longitude = e.before.longitude
Handled == {fixes.log[k] : k \in DOMAIN fixes.log}

\* C3 as stated: a usable fix after the first one becomes the stored position if and
\* only if its distance from the stored position is above 50 m and the reported speed is
\* above 2 km/h, and leaves the stored position unchanged otherwise.
C3_AdoptedIffMoved ==
    \A e \in Handled :
        e.n > 1 =>
            IF FixDistance(e) > 50000 /\ e.kmph > 2000 THEN Adopted(e) ELSE PositionKept(e)

\* C4: after a usable fix the stored speed is the speed the receiver reports, whether
\* or not the position was adopted.
C4_SpeedRecorded == \A e \in Handled : e.after.speed = e.kmph

\* C4 witness: a fix that left the stored position alone changed the stored speed
C4_Witness ==
    \E e \in Handled :
        /\ PositionKept(e) /\ ~Adopted(e)
        /\ e.kmph # e.before.speed
        /\ e.after.speed = e.kmph

\* C5: the first usable fix since power-on finds the stored data as initialised, becomes
\* the stored position and adds no distance, whatever its distance from (0, 0) and
\* whatever the speed.
C5_FirstFixSeeds ==
    \A e \in Handled :
        e.n = 1 =>
            /\ e.before.latitude = 0 /\ e.before.longitude = 0 /\ e.before.totalDistance = 0
            /\ Adopted(e)
            /\ e.after.totalDistance = 0

\* C5 witness: a first fix more than 50 m from (0, 0), reported with a speed of at most
\* 2 km/h, was adopted
C5_Witness ==
    \E e \in Handled :
        /\ e.n = 1
        /\ calculateDistance(0, 0, e.lat, e.lng) > 50000
        /\ e.kmph <= 2000
        /\ Adopted(e)
        /\ e.after.totalDistance = 0

\* C6: no step of the program lowers the cumulative distance.
C6_DistanceMonotone == [][gpsData'.totalDistance >= gpsData.totalDistance]_vars

\* C6 witness: the cumulative distance has grown in two updateGPS calls
C6_Witness == gpsData.totalDistance > 150000 /\ fixes.n >= 4

\* C7 as stated: with (0, 0) stored, a fix at (0, 0.0005 deg) reported at 5 km/h adds
\* its distance and is adopted, and reported at 1 km/h changes neither the total nor the
\* stored position.
C7_OriginPair ==
    \A e \in Handled :
        (e.before.latitude = 0 /\ e.before.longitude = 0 /\ e.lat = 0 /\ e.lng = 500) =>
            /\ e.kmph = 5000 =>
                  /\ e.after.totalDistance = e.before.totalDistance + FixDistance(e)
                  /\ FixDistance(e) > 55000
                  /\ Adopted(e)
            /\ e.kmph = 1000 =>
                  /\ e.after.totalDistance = e.before.totalDistance
                  /\ PositionKept(e)

\* ---------------------------------------------------------------- inertial reader
Calibrated(i) ==
    \A j \in 1 .. 3 :
        /\ imuData[i].calibratedAccel[j] = imuData[i].accel[j] - CALIBRATION_OFFSETS[i + 1][j]
        /\ imuData[i].calibratedGyro[j] = imuData[i].gyro[j] - CALIBRATION_OFFSETS[i + 1][j + 3]

\* C8 as stated: in every state, for every sensor and axis, calibrated = raw - offset.
C8_CalibratedAlways == \A i \in Sensors : Calibrated(i)

\* C8 amended: a sensor's stored values are all 0 until its first successful read, and
\* from then on, a failed read included, calibrated = raw - offset on every axis.
C8_CalibratedOnceRead == \A i \in Sensors : imuData[i] = SensorDataInit \/ Calibrated(i)

\* C8 witness: after two readAllIMUs calls one sensor holds a sample, kept or new, and
\* another has never been read
C8_Witness ==
    /\ calls = 2
    /\ \E i \in Sensors : imuData[i] # SensorDataInit /\ Calibrated(i)
    /\ \E i \in Sensors : imuData[i] = SensorDataInit

\* ---------------------------------------------------------------- loop()
Tasks == <<"gps", "imu", "piezo", "log", "display">>
Intervals == <<1000, 100, 20, 1000, 1000>>

\* C9: in every pass each task runs if and only if now - lastRun >= its interval
\* (position 1000, inertial 100, step 20, record 1000, display 1000 ms), a task that
\* runs sets its lastRun to now and one that does not leaves it unchanged.
C9_RunsIffDue ==
    calls > 0 /\ pc = "loop" =>
        \A k \in 1 .. 5 :
            LET due == GeU32(Sub32(pass.now, pass.before[k]), Intervals[k])
            IN /\ (Tasks[k] \in pass.ran) = due
               /\ timers[k] = IF due THEN pass.now ELSE pass.before[k]

\* C9 witness: a pass in which the inertial task ran exactly 100 ms after its last run
\* and the one-second tasks did not
C9_Witness ==
    /\ calls > 1
    /\ pass.ran = {"imu", "piezo"}
    /\ Sub32(pass.now, pass.before[2]) = 100

\* ---------------------------------------------------------------- recorder
HeaderLines == {k \in DOMAIN logFile : logFile[k].kind = "header"}

\* C10: over any logData calls with any mix of opens that succeed and fail, the header
\* is written once, by the first call whose open succeeds, before that call's data line.
C10_HeaderOnce ==
    /\ headerWritten = (logFile # <<>>)
    /\ logFile # <<>> =>
          /\ HeaderLines = {1}
          /\ Len(logFile) >= 2

\* C10 witness: the first open failed, and two later ones succeeded
C10_Witness ==
    /\ Len(logFile) = 3
    /\ logFile[2].kind = "record" /\ logFile[2].timestamp > 1
    /\ logFile[3].kind = "record"

\* ---------------------------------------------------------------- setup()
\* C11: when setup() finds an inertial sensor or the display missing the device is
\* halted, with no pass run and all shared state as at power-on, and no step is ever
\* taken from a halted state; when it finds both, the loop starts whether or not the
\* store initialised.
C11_HaltIsFatal ==
    /\ [](pc # "setup" =>
            IF inputs.imusFound /\ inputs.displayFound
            THEN pc = "loop"
            ELSE /\ pc = "halted"
                 /\ calls = 0 /\ pass = NoPass /\ clock = 0
                 /\ timers = <<0, 0, 0, 0, 0>>
                 /\ imuData = [i \in Sensors |-> SensorDataInit]
                 /\ gpsData = GpsDataInit /\ stepData = StepDataInit
                 /\ headerWritten = FALSE /\ logFile = <<>> /\ frame = NoFrame)
    /\ [][pc # "halted"]_vars

\* C11 witness: the sensors were found and the display was not, and the device is halted
C11_Witness == pc = "halted" /\ inputs.imusFound /\ ~inputs.displayFound

\* ---------------------------------------------------------------- failed reads and opens
\* C12: in a pass whose inertial task runs, a sensor whose read fails keeps all its raw
\* and calibrated values, every sensor whose read succeeds holds the new sample, the
\* device stays in the loop and every other task that is due in the pass runs.
C12_FailedReadKeeps ==
    [][(pass' # pass /\ "imu" \in pass'.ran) =>
          /\ \A i \in Sensors :
                imuData'[i] = IF inputs'.reads[i].ok
                              THEN StoreSample(i, inputs'.reads[i])
                              ELSE imuData[i]
          /\ pc' = "loop"
          /\ \A k \in 1 .. 5 :
                GeU32(Sub32(pass'.now, pass'.before[k]), Intervals[k])
                    => Tasks[k] \in pass'.ran]_vars

\* C12 witness: the read of sensor 1 failed in the last pass; sensor 1 still holds the
\* sample of an earlier pass and sensor 2 the sample of this one
C12_Witness ==
    /\ "imu" \in pass.ran
    /\ ~inputs.reads[1].ok /\ inputs.reads[2].ok
    /\ imuData[1].accel = <<0, 0, 98100>>
    /\ imuData[2] = StoreSample(2, inputs.reads[2])
    /\ imuData[2].accel = <<25000, -40000, 60000>>
    /\ pass.ran = {"imu", "piezo", "log", "display", "gps"}

\* C13: in a pass whose record task runs and cannot open the store, nothing is appended
\* and the header flag is unchanged; the inertial, position and step state are what the
\* tasks before the record task left (unchanged when none of them ran); the record
\* task's last-run time is the pass time; and every other task that is due in the pass
\* runs.
C13_OpenFailureSkips ==
    [][(pass' # pass /\ "log" \in pass'.ran /\ ~inputs'.opened) =>
          /\ logFile' = logFile
          /\ headerWritten' = headerWritten
          /\ imuData' = IF "imu" \in pass'.ran THEN readAllIMUs(imuData, inputs'.reads)
                        ELSE imuData
          /\ stepData' = IF "piezo" \in pass'.ran
                         THEN readPiezoSensors(stepData, inputs'.millis, inputs'.leftValue,
                                               inputs'.rightValue)
                         ELSE stepData
          /\ "gps" \notin pass'.ran => gpsData' = gpsData /\ gps' = gps
          /\ lastLogTime' = pass'.now
          /\ \A k \in 1 .. 5 :
                GeU32(Sub32(pass'.now, pass'.before[k]), Intervals[k])
                    => Tasks[k] \in pass'.ran
          /\ pc' = "loop"]_vars

\* C13 witness: the store opened in an earlier pass and not in the last one, which ran
\* the record task at its pass time and the display task after it
C13_Witness ==
    /\ "log" \in pass.ran /\ "display" \in pass.ran
    /\ ~inputs.opened
    /\ headerWritten /\ Len(logFile) = 2
    /\ lastLogTime = pass.now
    /\ frame.unit = "m"

\* ---------------------------------------------------------------- display
\* C14: a frame shows the cumulative distance in metres, to a tenth, when it is below
\* 1000 m and in kilometres, to a hundredth, when it is 1000 m or more: 999 m is shown
\* as "999.0m" and 1000 m as "1.00km".
C14_UnitSwitch ==
    frame.unit \in {"m", "km"} =>
        /\ (frame.unit = "m") = (gpsData.totalDistance < 1000000)
        /\ frame.unit = "m" => (frame.dist * 100 - gpsData.totalDistance) \in -50 .. 50
        /\ frame.unit = "km" => (frame.dist * 10000 - gpsData.totalDistance) \in -5000 .. 5000
        /\ gpsData.totalDistance = 999000 => DistanceText(frame) = "999.0m"
        /\ gpsData.totalDistance = 1000000 => DistanceText(frame) = "1.00km"

\* C14 witness: a frame drawn with exactly 1000 m walked
C14_Witness ==
    /\ calls > 0
    /\ gpsData.totalDistance = 1000000
    /\ frame.unit = "km" /\ frame.dist = 100
    /\ DistanceText(frame) = "1.00km"

\* ---------------------------------------------------------------- step classifier, continued
\* C15 as stated: a pulse that comes at least 200 ms after its channel's last accepted
\* step is accepted, one that comes exactly 200 ms after it included.
C15_AcceptedAt200 ==
    \A ch \in {"L", "R"} : \A k \in DOMAIN pulses[ch] :
        LET p == pulses[ch][k]
        IN GeU32(Sub32(p.t, p.last), 200) => p.accepted

\* ---------------------------------------------------------------- position tracker, continued
\* C16 as stated: a usable fix is adopted without the filter, adding no distance, only
\* when both stored coordinates are 0; when a stored coordinate is not 0 the fix is
\* adopted, and its distance added, if the distance is above 50 m and the speed above
\* 2 km/h, and otherwise changes neither the stored position nor the total.
C16_SeedOnlyAtOrigin ==
    \A e \in Handled :
        (e.before.latitude # 0 \/ e.before.longitude # 0) =>
            IF FixDistance(e) > 50000 /\ e.speedValid /\ e.kmph > 2000
            THEN /\ Adopted(e)
                 /\ e.after.totalDistance = e.before.totalDistance + FixDistance(e)
            ELSE /\ PositionKept(e)
                 /\ e.after.totalDistance = e.before.totalDistance

\* ---------------------------------------------------------------- loop(), continued
Records(file) == {k \in DOMAIN file : file[k].kind = "record"}

\* C17: in every pass, however long the loop stalled before it, a task whose interval
\* (or any number of them) has elapsed runs once: its lastRun becomes the pass's clock
\* value, not lastRun + interval, so the next run comes a full interval after this pass;
\* the step task takes one sample per channel and the record task appends one record.
\* A task that is not due does not run.
C17_NoCatchUp ==
    [][pass' # pass =>
          /\ \A k \in 1 .. 5 :
                IF GeU32(Sub32(pass'.now, pass'.before[k]), Intervals[k])
                THEN Tasks[k] \in pass'.ran /\ timers'[k] = pass'.now
                ELSE Tasks[k] \notin pass'.ran /\ timers'[k] = pass'.before[k]
          /\ pass'.before = timers
          /\ Len(pulses'.L) = Len(pulses.L)
                 + (IF "piezo" \in pass'.ran /\ inputs'.leftValue > 600 THEN 1 ELSE 0)
          /\ Len(pulses'.R) = Len(pulses.R)
                 + (IF "piezo" \in pass'.ran /\ inputs'.rightValue > 80 THEN 1 ELSE 0)
          /\ Cardinality(Records(logFile')) = Cardinality(Records(logFile))
                 + (IF "log" \in pass'.ran /\ inputs'.opened THEN 1 ELSE 0)]_vars

\* C17 witness: the second pass came 900 ms after the first, 45 intervals of the step
\* task and 9 of the inertial task; both ran in it, the step task sampled once, and their
\* lastRun is the clock value of the pass
C17_Witness ==
    /\ calls = 2
    /\ Sub32(pass.now, pass.before[3]) = 900
    /\ {"imu", "piezo"} \subseteq pass.ran
    /\ Len(pulses.L) = 2
    /\ lastPiezoUpdate = pass.now /\ lastSensorUpdate = pass.now
    /\ lastPiezoUpdate # Add32(pass.before[3], PIEZO_UPDATE_INTERVAL)

\* the place of a task in the order of the loop body
Place(t) == CHOOSE k \in 1 .. 5 : Tasks[k] = t

\* C18: the tasks of a pass run in the order position, inertial, step, record, display,
\* each on the state the earlier ones left: the record appended in a pass, and the frame
\* drawn in it, hold the inertial, position and step values as they are after the pass,
\* the updates of the same pass included.
C18_OrderAndFreshness ==
    [][pass' # pass =>
          /\ {pass'.order[k] : k \in DOMAIN pass'.order} = pass'.ran
          /\ \A k \in DOMAIN pass'.order : \A l \in DOMAIN pass'.order :
                k < l => Place(pass'.order[k]) < Place(pass'.order[l])
          /\ ("log" \in pass'.ran /\ inputs'.opened) =>
                /\ logFile' # <<>>
                /\ logFile'[Len(logFile')]
                       = RecordLine(inputs'.millis, imuData', gpsData', stepData')
                /\ Len(logFile') > Len(logFile)
          /\ "display" \in pass'.ran =>
                frame' = updateDisplay(inputs'.millis, gpsData', stepData')]_vars

\* C18 witness: the first pass ran all five tasks; its record and its frame show the two
\* steps and the 55.6 m that the step and position tasks added in that pass
C18_Witness ==
    /\ calls = 1
    /\ pass.order = <<"gps", "imu", "piezo", "log", "display">>
    /\ stepData.totalSteps = 2 /\ gpsData.totalDistance > 50000
    /\ Len(logFile) = 2
    /\ logFile[2].total_steps = 2 /\ logFile[2].total_distance > 5000
    /\ logFile[2].imu[0][3] # 0
    /\ frame.steps = 2 /\ frame.unit = "m" /\ frame.dist > 500

\* ---------------------------------------------------------------- step counters
Counters == {"totalSteps", "normal_L_steps", "normal_R_steps", "strong_L_steps", "strong_R_steps"}

\* C19: no step of the program lowers any of the five step counters, and one
\* readPiezoSensors call raises totalSteps by at most 2.
C19_CountersMonotone ==
    [][/\ \A c \in Counters : GeU32(stepData'[c], stepData[c])
       /\ Sub32(stepData'.totalSteps, stepData.totalSteps) \in 0 .. 2]_vars

\* C19 witness: after an earlier step, one call accepted a step on each channel
C19_Witness ==
    /\ stepData.totalSteps >= 3
    /\ pulses.L # <<>> /\ pulses.R # <<>>
    /\ LET l == pulses.L[Len(pulses.L)]
           r == pulses.R[Len(pulses.R)]
       IN /\ l.accepted /\ r.accepted
          /\ l.t = inputs.millis /\ r.t = inputs.millis
          /\ l.t # 1000

\* 1 for TRUE, 0 for FALSE
One(b) == IF b THEN 1 ELSE 0

\* C20: in a readPiezoSensors call, a channel whose sample is accepted (above the detect
\* threshold, more than DEBOUNCE_TIME after the channel's last-accepted timestamp) adds
\* one to totalSteps and one to the channel's normal counter if the value is below the
\* strong threshold (left 700, right 120), to its strong counter otherwise, and sets the
\* channel's timestamp to the call's time; it changes nothing of the other channel, and
\* a channel whose sample is not accepted changes nothing.
C20_AcceptedPulseFrame ==
    [][calls' # calls =>
          LET t == inputs'.millis
              lv == inputs'.leftValue
              rv == inputs'.rightValue
              accL == lv > 600 /\ GtU32(Sub32(t, stepData.lastLeftStep), DEBOUNCE_TIME)
              accR == rv > 80 /\ GtU32(Sub32(t, stepData.lastRightStep), DEBOUNCE_TIME)
          IN /\ stepData'.totalSteps = stepData.totalSteps + One(accL) + One(accR)
             /\ stepData'.normal_L_steps = stepData.normal_L_steps + One(accL /\ lv < 700)
             /\ stepData'.strong_L_steps = stepData.strong_L_steps + One(accL /\ lv >= 700)
             /\ stepData'.lastLeftStep = IF accL THEN t ELSE stepData.lastLeftStep
             /\ stepData'.normal_R_steps = stepData.normal_R_steps + One(accR /\ rv < 120)
             /\ stepData'.strong_R_steps = stepData.strong_R_steps + One(accR /\ rv >= 120)
             /\ stepData'.lastRightStep = IF accR THEN t ELSE stepData.lastRightStep]_vars

\* C20 witness: the last call accepted a normal left step and rejected a right pulse that
\* came within the debounce time of the last right step
C20_Witness ==
    /\ pulses.L # <<>> /\ pulses.R # <<>>
    /\ LET l == pulses.L[Len(pulses.L)]
           r == pulses.R[Len(pulses.R)]
       IN /\ l.t = inputs.millis /\ r.t = inputs.millis
          /\ l.accepted /\ ~r.accepted
          /\ inputs.leftValue = 601
          /\ stepData.normal_L_steps >= 1
          /\ stepData.lastLeftStep = inputs.millis
          /\ stepData.lastRightStep # inputs.millis /\ stepData.lastRightStep # 0

\* ---------------------------------------------------------------- liveness
\* C21: unless setup() halted, the loop running for ever runs each of the five tasks
\* again and again, in passes before and in passes after each wrap of the 32-bit clock.
C21_EveryTaskForever ==
    \A k \in 1 .. 5 :
        /\ []<>(pc = "halted" \/ (Tasks[k] \in pass.ran /\ pass.now < 0))
        /\ []<>(pc = "halted" \/ (Tasks[k] \in pass.ran /\ pass.now >= 0 /\ pass.now < LiveWindow))

\* C21 witness: a pass after the wrap ran the one-second tasks, whose last run was
\* before the wrap
C21_Witness ==
    /\ pass.now >= 0 /\ pass.now < LiveWindow
    /\ pass.before[1] < 0 /\ pass.before[4] < 0 /\ pass.before[5] < 0
    /\ {"gps", "log", "display"} \subseteq pass.ran
    /\ lastGpsUpdate = pass.now

\* ---------------------------------------------------------------- cumulative distance
\* C22: a usable fix either leaves totalDistance alone or adds to it the one distance
\* computed for that fix, which is above 50 m, and is then adopted as the stored
\* position; a fix handled by the seed branch (a stored coordinate is 0) leaves
\* totalDistance alone; and totalDistance is 0 or above 50 m in every state.
C22_DistanceSteps ==
    /\ \A e \in Handled :
          /\ \/ e.after.totalDistance = e.before.totalDistance
             \/ /\ e.after.totalDistance = e.before.totalDistance + FixDistance(e)
                /\ FixDistance(e) > GPS_DISTANCE_THRESHOLD
                /\ Adopted(e)
          /\ (e.before.latitude = 0 \/ e.before.longitude = 0) =>
                e.after.totalDistance = e.before.totalDistance
          /\ e.before.totalDistance = 0 \/ e.before.totalDistance > GPS_DISTANCE_THRESHOLD
    /\ gpsData.totalDistance = 0 \/ gpsData.totalDistance > GPS_DISTANCE_THRESHOLD

\* C22 witness: a fix 55.6 m from the stored position was adopted and its distance added
C22_Witness ==
    \E e \in Handled :
        /\ e.before.latitude # 0 /\ e.before.longitude # 0
        /\ FixDistance(e) > GPS_DISTANCE_THRESHOLD /\ FixDistance(e) < 60000
        /\ e.after.totalDistance = e.before.totalDistance + FixDistance(e)
        /\ Adopted(e)
        /\ gpsData.totalDistance = e.after.totalDistance

\* ---------------------------------------------------------------- level-triggered steps
\* the pulses of a channel whose value has been above the detect threshold at every
\* readPiezoSensors call so far: one pulse per call
HeldHigh(ch) == Len(pulses[ch]) = calls

\* the accepted pulse before pulse k of a log, 0 if there is none
LastAccepted(log, k) ==
    LET before == {m \in 1 .. k - 1 : log[m].accepted}
    IN IF before = {} THEN 0 ELSE CHOOSE m \in before : \A n \in before : n <= m

\* C23: while a channel's value has stayed above its detect threshold at every call, each
\* sample that comes more than 200 ms after the channel's previous accepted step is
\* accepted as a new step, and each that comes sooner is not, although the value never
\* dropped below the threshold in between.
C23_LevelTriggered ==
    \A ch \in {"L", "R"} :
        HeldHigh(ch) =>
            \A k \in DOMAIN pulses[ch] :
                LET log == pulses[ch]
                    m == LastAccepted(log, k)
                IN m > 0 => /\ log[k].last = log[m].t
                            /\ log[k].accepted = GtU32(Sub32(log[k].t, log[m].t), 200)

\* C23 witness: the left value was above the threshold at each of three calls; the
\* second came 201 ms after the first and both were accepted as steps
C23_Witness ==
    /\ calls = 3 /\ HeldHigh("L")
    /\ pulses.L[1].accepted /\ pulses.L[2].accepted
    /\ Sub32(pulses.L[2].t, pulses.L[1].t) = 201
    /\ stepData.normal_L_steps + stepData.strong_L_steps >= 2

\* ---------------------------------------------------------------- runtime shown
\* C24 as stated: the hours, minutes and seconds of a frame drawn at millis() = ms
\* satisfy hours * 3600 + minutes * 60 + seconds = floor(ms / 1000), with minutes and
\* seconds in 0 .. 59, for every ms of the 32-bit clock.
C24_RuntimeShown ==
    (pc = "loop" /\ "display" \in pass.ran) =>
        /\ frame.hours * 3600 + frame.mins * 60 + frame.secs = Seconds(inputs.millis)
        /\ frame.mins \in 0 .. 59
        /\ frame.secs \in 0 .. 59

====
